---- MODULE Spec2Model ----
(***************************************************************************)
(* NTAG424 SUN verification with replay protection.                        *)
(*                                                                         *)
(* Modelled program: lib/ntag424 (verifyNTAG424 and its helpers, the       *)
(* revision that derives an SDM session key), lib/kv (the replay ledger    *)
(* kept in sorted sets of a remote key-value store, and the tag owners     *)
(* kept under tag:<uid>), and the routes register-tag and verify-tag.      *)
(*                                                                         *)
(* Bytes are integers 0..255, buffers are sequences of bytes, hex strings  *)
(* are sequences of characters, a character being its hex digit value      *)
(* 0..15 or NonHex for a character that is no hex digit.                   *)
(***************************************************************************)
EXTENDS Integers, Sequences, FiniteSets, TLC

VARIABLES
  ledger,     \* the store: for each UID the sorted set counters:<uid>
  pc,         \* per request: where its verifyNTAG424 call stands
  msg,        \* per request: the NTAG424Data its call verifies
  skip,       \* per request: the skipReplayCheck argument of its call
  count,      \* per request: saveCounter's local `count` (zcard's answer)
  reads,      \* per request: checkReplayAttack's locals `used`, `maxCounter`
  kvOps,      \* per request: the ledger operations that answered its call
  wrote,      \* per request: whether its call has changed the ledger
  floor,      \* per request: the highest counter accepted for the call's
              \* UID when the call started (history)
  last,       \* the call that returned in the latest step, if one did:
              \* its arguments, locals and result (an observation)
  calls,      \* number of calls so far that went on to checkReplayAttack
  acceptLog,  \* history: per UID the counters of the strict calls that
              \* returned valid=true, in the order they returned
  recorded,   \* history: per UID the counters in the order zadd stored them
  trial,      \* a helper applied on its own: its input and what it gave
  probed,     \* history: the message the latest accepted probe call was
              \* given, and one more than the number of counters recorded
              \* for its UID by then
  owner,      \* the store: for each uid the value under tag:<uid>
  route,      \* per request: the route handler serving it and where it
              \* stands
  reply,      \* the response a route handler sent in the latest step, if
              \* one did (an observation)
  page        \* the page of one browser tab: its session, its tap and what
              \* it shows

\* the state of lib/ntag424 and of the replay ledger
core == <<ledger, pc, msg, skip, count, reads, kvOps, wrote, floor, last,
          calls, acceptLog, recorded, trial, probed>>

vars == <<ledger, pc, msg, skip, count, reads, kvOps, wrote, floor, last,
          calls, acceptLog, recorded, trial, probed, owner, route, reply,
          page>>

----------------------------------------------------------------------------
(* Bounds of the model *)

\* concurrent requests (serverless invocations) in flight
NProcs == 2
\* verifyNTAG424 calls in one behaviour that reach checkReplayAttack
MaxCalls == 3
\* highest SDMReadCtr a genuine tap of the first tag carries
MaxCounter == 2
\* counters kept per UID by saveCounter: the source keeps 1000
Capacity == 1

Procs == 1..NProcs

----------------------------------------------------------------------------
(* Bytes, buffers and hex strings *)

NonHex == 16
Byte == 0..255

Min(a, b) == IF a < b THEN a ELSE b

RECURSIVE Xor(_, _)
\* bitwise exclusive or of two naturals, as CBC chaining applies it to bytes
Xor(a, b) ==
  IF a = 0 THEN b
  ELSE IF b = 0 THEN a
  ELSE (((a % 2) + (b % 2)) % 2) + 2 * Xor(a \div 2, b \div 2)

RECURSIVE HexPairs(_, _)
\* number of leading two-character groups of `hex` from position i that are
\* both hex digits: Buffer.from(hex, 'hex') stops at the first that is not
HexPairs(hex, i) ==
  IF i + 1 > Len(hex) THEN 0
  ELSE IF hex[i] = NonHex \/ hex[i + 1] = NonHex THEN 0
  ELSE 1 + HexPairs(hex, i + 2)

\* Buffer.from(hex, 'hex'): never throws, decodes the valid prefix
hexToBuffer(hex) ==
  [i \in 1..HexPairs(hex, 1) |-> 16 * hex[2 * i - 1] + hex[2 * i]]

\* buf.toString('hex').toUpperCase(): two digits per byte
toHex(buf) ==
  [i \in 1..(2 * Len(buf)) |->
     IF i % 2 = 1 THEN buf[(i + 1) \div 2] \div 16 ELSE buf[i \div 2] % 16]

\* the 3 bytes read most significant byte first, as readUIntBE does
readUIntBE3(buf, offset) ==
  65536 * buf[offset + 1] + 256 * buf[offset + 2] + buf[offset + 3]

\* buf.readUIntLE(offset, 3), offset counted from 0 as in the source
readUIntLE3(buf, offset) ==
  buf[offset + 1] + 256 * buf[offset + 2] + 65536 * buf[offset + 3]

\* the 3 bytes buf.writeUIntLE(value, offset, 3) stores
UIntLE3(value) ==
  <<value % 256, (value \div 256) % 256, (value \div 65536) % 256>>

----------------------------------------------------------------------------
(* The cryptographic primitives the program imports.  AES and AES-CMAC are *)
(* library code; they are modelled by stand-ins that keep what the program *)
(* relies on: the block cipher is a key-dependent bijection on 16-byte     *)
(* blocks that is not the identity, the MAC is a deterministic function of *)
(* key and message giving 16 bytes.                                        *)

RECURSIVE SumWeighted(_, _, _)
SumWeighted(m, j, w) ==
  IF j > Len(m) THEN 0 ELSE (j + w) * m[j] + SumWeighted(m, j + 1, w)

\* aesCmac(key, message, {returnAsBuffer: true}): 16 bytes
aesCmac(key, message) ==
  [i \in 1..16 |->
     (3 * key[i] + 7 * i + 5 * Len(message) + SumWeighted(message, 1, i)) % 256]

\* position the block cipher stand-in moves byte i of a block to: bytes of
\* the UID and of the counter come to lie among the first 8 bytes of the
\* ciphertext, so that taps that differ in UID or counter differ there, as
\* they do under AES
Rot(i) == ((i + 11) % 16) + 1

\* one block of the cipher stand-in, decrypting
BlockDecrypt(key, block) ==
  [i \in 1..16 |-> (block[Rot(i)] + 256 - key[i]) % 256]

\* decryptSUNMessage: AES-128-CBC, no padding.  createDecipheriv throws for
\* a key that is not 16 bytes, decipher.final() for data that is not a
\* whole number of blocks.
decryptSUNMessage(encryptedData, key, iv) ==
  IF Len(key) # 16 \/ Len(encryptedData) % 16 # 0
  THEN [threw |-> TRUE, data |-> <<>>]
  ELSE [threw |-> FALSE,
        data  |-> [i \in 1..Len(encryptedData) |->
          LET b    == (i - 1) \div 16
              k    == ((i - 1) % 16) + 1
              blk  == SubSeq(encryptedData, 16 * b + 1, 16 * b + 16)
              prev == IF b = 0 THEN iv[k] ELSE encryptedData[16 * (b - 1) + k]
          IN Xor(BlockDecrypt(key, blk)[k], prev)]]

ZeroIV == [i \in 1..16 |-> 0]

----------------------------------------------------------------------------
(* lib/ntag424: the pure helpers *)

\* `counter` of a result that carries none (the field is optional)
NoCounter == -1
\* `uid` of a result that carries none
NoUid == <<>>

\* SV2 with the counter written most significant byte first
SV2_counterBE(uid, counter) ==
  LET uidBytes == hexToBuffer(uid)
      head     == <<60, 195, 0, 1, 0, 128>>
      ctr      == <<(counter \div 65536) % 256, (counter \div 256) % 256,
                    counter % 256>>
  IN [i \in 1..16 |->
        IF i <= 6 THEN head[i]
        ELSE IF i >= 14 THEN ctr[i - 13]
        ELSE IF i - 6 <= Len(uidBytes) THEN uidBytes[i - 6]
        ELSE 0]

\* generateSDMSessionKey: SV2 = 3CC3 || 0001 || 0080 || UID || SDMReadCtr,
\* the UID copied from offset 6, then the counter written at offset 13
SV2(uid, counter) ==
  LET uidBytes == hexToBuffer(uid)
      head     == <<60, 195, 0, 1, 0, 128>>
      withUid  == [i \in 1..16 |->
                     IF i <= 6 THEN head[i]
                     ELSE IF i - 6 <= Len(uidBytes) THEN uidBytes[i - 6]
                     ELSE 0]
  IN [i \in 1..16 |-> IF i >= 14 THEN UIntLE3(counter)[i - 13] ELSE withUid[i]]

\* generateSDMSessionKey taking the read counter from the replay ledger,
\* the highest one on record for the UID, when there is one
generateSDMSessionKey_fromLedger(baseKey, uid, counter) ==
  aesCmac(baseKey,
          SV2(uid, IF uid \in DOMAIN ledger /\ ledger[uid] # {}
                   THEN CHOOSE x \in ledger[uid] : \A y \in ledger[uid] : y <= x
                   ELSE counter))

generateSDMSessionKey(baseKey, uid, counter) ==
  aesCmac(baseKey, SV2(uid, counter))

\* verifyCMAC as an earlier revision had it: the length test alone
verifyCMAC_lengthOnly(piccData, cmac, key) == Len(cmac) = 8

\* verifyCMAC(piccData, cmac, key): the length test, then the first 8 bytes
\* of the computed CMAC against the provided one
verifyCMAC(piccData, cmac, key) ==
  IF Len(cmac) # 8 THEN FALSE
  ELSE SubSeq(aesCmac(key, piccData), 1, 8) = cmac

\* truncatedCMAC.equals(cmac) in verifyCMAC: the numbers of leading bytes
\* the comparison may examine.  Buffer.equals compares the memory of the
\* two buffers with memcmp, which may stop at the first byte that differs
\* and may read on, by the word or to the end; verifyCMAC does not come to
\* the comparison with a cmac that is not 8 bytes.
bytesExamined(truncatedCMAC, cmac) ==
  IF Len(cmac) # 8 THEN {0}
  ELSE LET diffs == {i \in 1..8 : truncatedCMAC[i] # cmac[i]}
           first == IF diffs = {} THEN 8
                    ELSE CHOOSE i \in diffs : \A j \in diffs : i <= j
       IN first..8

NoParse == [ok |-> FALSE, uid |-> NoUid, counter |-> NoCounter]

\* parsePICCData as an earlier revision had it: the UID read from offset 0
\* and the counter from offset 7
parsePICCData_uidAtOffset0(piccData, aesKey) ==
  LET buffer    == hexToBuffer(piccData)
      dec       == decryptSUNMessage(buffer, hexToBuffer(aesKey), ZeroIV)
      dataBuffer ==
        IF aesKey = <<>> THEN buffer
        ELSE IF Len(buffer) % 16 # 0 THEN buffer
        ELSE IF dec.threw THEN buffer
        ELSE dec.data
  IN IF Len(buffer) < 16 THEN NoParse
     ELSE IF Len(dataBuffer) < 11 THEN NoParse
     ELSE [ok      |-> TRUE,
           uid     |-> toHex(SubSeq(dataBuffer, 1, 7)),
           counter |-> readUIntLE3(dataBuffer, 7)]

\* parsePICCData(piccData, aesKey): aesKey is <<>> when the caller passes
\* none.  A buffer that is not block aligned, or whose decryption throws,
\* is used as it is.
parsePICCData(piccData, aesKey) ==
  LET buffer    == hexToBuffer(piccData)
      dec       == decryptSUNMessage(buffer, hexToBuffer(aesKey), ZeroIV)
      dataBuffer ==
        IF aesKey = <<>> THEN buffer
        ELSE IF Len(buffer) % 16 # 0 THEN buffer
        ELSE IF dec.threw THEN buffer
        ELSE dec.data
  IN IF Len(buffer) < 16 THEN NoParse
     ELSE IF Len(dataBuffer) < 11 THEN NoParse
     ELSE [ok      |-> TRUE,
           uid     |-> toHex(SubSeq(dataBuffer, 2, 8)),
           counter |-> readUIntLE3(dataBuffer, 8)]

----------------------------------------------------------------------------
(* The environment: the deployment key, the tags and what a caller sends *)

\* process.env.NTAG424_AES_KEY, a 32 character hex string
AesKeyBytes == [i \in 1..16 |-> 11 * i]
AesKeyHex == toHex(AesKeyBytes)

\* the inverse of Rot, and the cipher stand-in encrypting, as a tag does
RotInv(j) == ((j + 3) % 16) + 1
BlockEncrypt(key, block) ==
  [j \in 1..16 |-> (block[RotInv(j)] + key[RotInv(j)]) % 256]

UidA == <<4, 98, 62, 186, 30, 30, 144>>
UidB == <<4, 98, 62, 186, 30, 31, 144>>

\* what a genuine tag holding the key emits on the tap with read counter ctr
TagMessage(uidBytes, ctr) ==
  LET plain == <<199>> \o uidBytes \o UIntLE3(ctr) \o <<0, 0, 0, 0, 0>>
      sv    == <<60, 195, 0, 1, 0, 128>> \o uidBytes \o UIntLE3(ctr)
      kSes  == aesCmac(AesKeyBytes, sv)
  IN [piccData |-> toHex(BlockEncrypt(AesKeyBytes, plain)),
      cmac     |-> toHex(SubSeq(aesCmac(kSes, <<>>), 1, 8))]

\* the taps of the first tag with read counters 1..MaxCounter, in order,
\* then one tap of a second tag
GenuineMessages ==
  [c \in 1..MaxCounter |-> TagMessage(UidA, c)] \o <<TagMessage(UidB, 1)>>

\* messages no tag emitted: a MAC with one character changed, a MAC of 7
\* bytes, a piccData holding a character that is no hex digit, a piccData
\* of 17 bytes, a genuine piccData followed by two characters that are no
\* hex digits, and an empty piccData
ForgedMessages ==
  LET g == TagMessage(UidA, 1)
  IN <<[g EXCEPT !.cmac = [@ EXCEPT ![4] = (@ + 1) % 16]],
       [g EXCEPT !.cmac = SubSeq(@, 1, 14)],
       [g EXCEPT !.piccData = [@ EXCEPT ![5] = NonHex]],
       [g EXCEPT !.piccData = @ \o <<0, 0>>],
       [g EXCEPT !.piccData = @ \o <<NonHex, NonHex>>],
       [g EXCEPT !.piccData = <<>>]>>

\* the NTAG424Data values callers send, the last one the message of the
\* first tag with read counter 0, the lowest value the three bytes hold; a
\* request holds the index of its message in this table, 0 while it has none
MessageTable ==
  GenuineMessages \o ForgedMessages \o <<TagMessage(UidA, 0)>>
Messages == 1..Len(MessageTable)

\* the messages of the taps and the forgeries, and the one with counter 0
TapMessages == 1..(Len(GenuineMessages) + Len(ForgedMessages))
ZeroMessage == Len(MessageTable)
NoMessage == 0

\* parsePICCData as verifyNTAG424 calls it, for every message, computed once
ParsedOf ==
  [m \in Messages |-> parsePICCData(MessageTable[m].piccData, AesKeyHex)]

\* the UIDs and counters that verifyNTAG424 can hand to the ledger
Uids == {ParsedOf[m].uid : m \in {x \in Messages : ParsedOf[x].ok}}
Counters == {ParsedOf[m].counter : m \in {x \in Messages : ParsedOf[x].ok}}

----------------------------------------------------------------------------
(* lib/ntag424: verifyNTAG424, and lib/kv: the replay ledger *)

ReasonFormat == "Invalid PICC data format"
ReasonCmac   == "CMAC verification failed"
ReasonReplay == "Replay attack detected - counter already used or invalid"
ReasonError  == "Verification error"

\* the VerificationResult values verifyNTAG424 returns; Pending stands for
\* no result yet
Pending == [done |-> FALSE, valid |-> FALSE, reason |-> "", uid |-> NoUid,
            counter |-> NoCounter]
Rejected(reason, uid, counter) ==
  [done |-> TRUE, valid |-> FALSE, reason |-> reason, uid |-> uid,
   counter |-> counter]
Accepted(uid, counter) ==
  [done |-> TRUE, valid |-> TRUE, reason |-> "", uid |-> uid,
   counter |-> counter]

\* the MAC step left out
macCheck_omitted(data, aesKey) == TRUE

\* verifyNTAG424's MAC step on a parsed message: the session key from the
\* base key, the parsed uid and counter, then verifyCMAC over the empty
\* input
macCheck(data, aesKey) ==
  LET key        == hexToBuffer(aesKey)
      cmac       == hexToBuffer(data.cmac)
      parsed     == parsePICCData(data.piccData, aesKey)
      sessionKey == generateSDMSessionKey(key, parsed.uid, parsed.counter)
      cmacInputData == <<>>
  IN verifyCMAC(cmacInputData, cmac, sessionKey)

\* verifySync with skipReplayCheck not looked at
verifySync_ignoresSkip(data, aesKey, skipReplayCheck) ==
  LET key        == hexToBuffer(aesKey)
      decrypted  == decryptSUNMessage(hexToBuffer(data.piccData), key, ZeroIV)
      parsed     == parsePICCData(data.piccData, aesKey)
  IN IF decrypted.threw THEN Rejected(ReasonError, NoUid, NoCounter)
     ELSE IF ~parsed.ok THEN Rejected(ReasonFormat, NoUid, NoCounter)
     ELSE IF ~macCheck(data, aesKey)
       THEN Rejected(ReasonCmac, parsed.uid, parsed.counter)
     ELSE Pending

\* verifySync without the try/catch: what decryptSUNMessage throws leaves
\* the call as an exception, which is no VerificationResult
verifySync_noCatch(data, aesKey, skipReplayCheck) ==
  LET key        == hexToBuffer(aesKey)
      decrypted  == decryptSUNMessage(hexToBuffer(data.piccData), key, ZeroIV)
      parsed     == parsePICCData(data.piccData, aesKey)
  IN IF decrypted.threw
       THEN [done |-> TRUE, valid |-> FALSE, reason |-> "uncaught",
             uid |-> NoUid, counter |-> NoCounter]
     ELSE IF ~parsed.ok THEN Rejected(ReasonFormat, NoUid, NoCounter)
     ELSE IF ~macCheck(data, aesKey)
       THEN Rejected(ReasonCmac, parsed.uid, parsed.counter)
     ELSE IF skipReplayCheck THEN Accepted(parsed.uid, parsed.counter)
     ELSE Pending

\* verifySync without the return on a MAC mismatch
verifySync_noMacReturn(data, aesKey, skipReplayCheck) ==
  LET key        == hexToBuffer(aesKey)
      decrypted  == decryptSUNMessage(hexToBuffer(data.piccData), key, ZeroIV)
      parsed     == parsePICCData(data.piccData, aesKey)
  IN IF decrypted.threw THEN Rejected(ReasonError, NoUid, NoCounter)
     ELSE IF ~parsed.ok THEN Rejected(ReasonFormat, NoUid, NoCounter)
     ELSE IF skipReplayCheck THEN Accepted(parsed.uid, parsed.counter)
     ELSE Pending

\* the part of verifyNTAG424 that runs before its first await: decrypt,
\* parse, derive the session key, check the MAC.  It gives the result the
\* call returns there, or Pending when the call goes on to
\* checkReplayAttack.
verifySync(data, aesKey, skipReplayCheck) ==
  LET key        == hexToBuffer(aesKey)
      decrypted  == decryptSUNMessage(hexToBuffer(data.piccData), key, ZeroIV)
      parsed     == parsePICCData(data.piccData, aesKey)
  IN IF decrypted.threw THEN Rejected(ReasonError, NoUid, NoCounter)
     ELSE IF ~parsed.ok THEN Rejected(ReasonFormat, NoUid, NoCounter)
     ELSE IF ~macCheck(data, aesKey)
       THEN Rejected(ReasonCmac, parsed.uid, parsed.counter)
     ELSE IF skipReplayCheck THEN Accepted(parsed.uid, parsed.counter)
     ELSE Pending

\* the cryptographic operations the same part of verifyNTAG424 performs,
\* in order: decryptSUNMessage at its start, the decryption inside
\* parsePICCData, the session key derivation, the CMAC inside verifyCMAC
cryptoSteps(data, aesKey) ==
  LET key        == hexToBuffer(aesKey)
      buffer     == hexToBuffer(data.piccData)
      cmac       == hexToBuffer(data.cmac)
      decrypted  == decryptSUNMessage(buffer, key, ZeroIV)
      parsed     == parsePICCData(data.piccData, aesKey)
      inParse    == IF Len(buffer) >= 16 /\ aesKey # <<>>
                       /\ Len(buffer) % 16 = 0
                    THEN <<"decrypt">> ELSE <<>>
      inVerify   == IF Len(cmac) # 8 THEN <<>> ELSE <<"cmac">>
  IN IF decrypted.threw THEN <<"decrypt">>
     ELSE IF ~parsed.ok THEN <<"decrypt">> \o inParse
     ELSE <<"decrypt">> \o inParse \o <<"derive">> \o inVerify

\* what one call of verifyNTAG424 writes with console.log and console.warn,
\* in order: the label and the value of each line (buffers as the hex
\* string the code renders, a length as a one element sequence)
consoleLog(data, aesKey) ==
  LET key        == hexToBuffer(aesKey)
      buffer     == hexToBuffer(data.piccData)
      cmac       == hexToBuffer(data.cmac)
      decrypted  == decryptSUNMessage(buffer, key, ZeroIV)
      parsed     == parsePICCData(data.piccData, aesKey)
      sessionKey == generateSDMSessionKey(key, parsed.uid, parsed.counter)
      inParse    ==
        IF Len(buffer) < 16 \/ aesKey = <<>> THEN <<>>
        ELSE IF Len(buffer) % 16 # 0
        THEN <<[label |-> "[NTAG424] PICC data length not aligned",
                value |-> <<>>]>>
        ELSE <<[label |-> "[NTAG424] Decrypted PICC data:",
                value |-> toHex(decrypted.data)]>>
      inDerive   ==
        <<[label |-> "[SESSION] SV2:",
           value |-> toHex(SV2(parsed.uid, parsed.counter))],
          [label |-> "[SESSION] Base Key:", value |-> toHex(key)],
          [label |-> "[SESSION] Session Key:", value |-> toHex(sessionKey)]>>
      inVerify   ==
        <<[label |-> "[CMAC] Input data length:", value |-> <<0>>]>>
        \o (IF Len(cmac) # 8
            THEN <<[label |-> "[CMAC] Invalid CMAC length:",
                    value |-> <<Len(cmac)>>]>>
            ELSE <<[label |-> "[CMAC] Expected:", value |-> toHex(cmac)],
                   [label |-> "[CMAC] Calculated:",
                    value |-> toHex(SubSeq(aesCmac(sessionKey, <<>>), 1, 8))],
                   [label |-> "[CMAC] Input Data:", value |-> <<>>],
                   [label |-> "[CMAC] Session Key:",
                    value |-> toHex(sessionKey)]>>)
  IN IF decrypted.threw THEN <<>>
     ELSE IF ~parsed.ok THEN inParse
     ELSE inParse \o inDerive \o inVerify

ConsoleLogOf == [m \in Messages |-> consoleLog(MessageTable[m], AesKeyHex)]

CryptoStepsOf == [m \in Messages |-> cryptoSteps(MessageTable[m], AesKeyHex)]

\* verifySync of every message in either mode, computed once
SyncResult ==
  [m \in Messages |->
     [s \in BOOLEAN |-> verifySync(MessageTable[m], AesKeyHex, s)]]

SetMax(S) == CHOOSE x \in S : \A y \in S : y <= x
SetMin(S) == CHOOSE x \in S : \A y \in S : x <= y

\* isCounterUsed comparing the score with undefined instead of null: the
\* answer for a missing member, null, counts as a score
isCounterUsed_notUndefined(uid, counter) == TRUE

\* isCounterUsed: zscore of the member is not null
isCounterUsed(uid, counter) == counter \in ledger[uid]

\* getMaxCounter reading one sorted set shared by all UIDs
getMaxCounter_sharedKey(uid) ==
  LET all == UNION {ledger[v] : v \in Uids}
  IN IF all = {} THEN 0 ELSE SetMax(all)

\* getMaxCounter answering -1, below every counter, for an empty set
getMaxCounter_emptyBelowZero(uid) ==
  IF ledger[uid] = {} THEN -1 ELSE SetMax(ledger[uid])

\* getMaxCounter: the score of the last member, 0 for an empty set
getMaxCounter(uid) == IF ledger[uid] = {} THEN 0 ELSE SetMax(ledger[uid])

RECURSIVE zpopmax(_, _)
\* the sorted set without its n highest members
zpopmax(S, n) ==
  IF n <= 0 \/ S = {} THEN S ELSE zpopmax(S \ {SetMax(S)}, n - 1)

RECURSIVE zpopmin(_, _)
\* the sorted set without its n lowest members
zpopmin(S, n) ==
  IF n <= 0 \/ S = {} THEN S ELSE zpopmin(S \ {SetMin(S)}, n - 1)

KvPcs == {"isCounterUsed", "getMaxCounter", "zadd", "zcard", "zpopmin"}

NoReads == [used |-> "unread", max |-> NoCounter]

NoLast == [msg |-> NoMessage, skip |-> FALSE, result |-> Pending,
           reads |-> NoReads, kvOps |-> {}, wrote |-> FALSE, floor |-> 0]

\* the highest counter a strict call has been accepted with for uid so far
HighestAccepted(uid) ==
  IF uid \notin Uids \/ acceptLog[uid] = <<>> THEN 0
  ELSE SetMax({acceptLog[uid][i] : i \in 1..Len(acceptLog[uid])})

\* the call of request p returns `result`: the request is over, `last`
\* shows what the call was given, did and returned
Return(p, result, data, skipReplayCheck, r, ops, w, fl) ==
  /\ pc' = [pc EXCEPT ![p] = "idle"]
  /\ msg' = [msg EXCEPT ![p] = NoMessage]
  /\ skip' = [skip EXCEPT ![p] = FALSE]
  /\ count' = [count EXCEPT ![p] = 0]
  /\ reads' = [reads EXCEPT ![p] = NoReads]
  /\ kvOps' = [kvOps EXCEPT ![p] = {}]
  /\ wrote' = [wrote EXCEPT ![p] = FALSE]
  /\ floor' = [floor EXCEPT ![p] = 0]
  /\ last' = [msg |-> data, skip |-> skipReplayCheck, result |-> result,
              reads |-> r, kvOps |-> ops, wrote |-> w, floor |-> fl]
  /\ acceptLog' =
       IF result.valid /\ ~skipReplayCheck
       THEN [acceptLog EXCEPT ![result.uid] = Append(@, result.counter)]
       ELSE acceptLog

\* the same for a call that is past its first await
ReturnAsync(p, result, r, ops, w) ==
  Return(p, result, msg[p], skip[p], r, ops, w, floor[p])

\* Verify with an accepted probe storing its counter
Verify_probeRecords(p, data, skipReplayCheck) ==
  /\ pc[p] = "idle"
  /\ LET result == SyncResult[data][skipReplayCheck]
         fl     == HighestAccepted(ParsedOf[data].uid)
         stores == result.done /\ result.valid /\ skipReplayCheck
     IN /\ ledger' = IF stores
                     THEN [ledger EXCEPT ![result.uid] = @ \cup {result.counter}]
                     ELSE ledger
        /\ recorded' = IF stores
                       THEN [recorded EXCEPT
                               ![result.uid] = Append(@, result.counter)]
                       ELSE recorded
        /\ IF result.done
           THEN /\ Return(p, result, data, skipReplayCheck, NoReads, {},
                          ledger' # ledger, fl)
                /\ UNCHANGED calls
           ELSE /\ calls < MaxCalls
                /\ calls' = calls + 1
                /\ pc' = [pc EXCEPT ![p] = "isCounterUsed"]
                /\ msg' = [msg EXCEPT ![p] = data]
                /\ skip' = [skip EXCEPT ![p] = skipReplayCheck]
                /\ floor' = [floor EXCEPT ![p] = fl]
                /\ last' = NoLast
                /\ UNCHANGED <<count, reads, kvOps, wrote, acceptLog>>
  /\ UNCHANGED trial

\* verifyNTAG424(data, aesKey, skipReplayCheck) up to its first await
Verify(p, data, skipReplayCheck) ==
  /\ pc[p] = "idle"
  /\ LET result == SyncResult[data][skipReplayCheck]
         fl     == HighestAccepted(ParsedOf[data].uid)
     IN IF result.done
        THEN /\ Return(p, result, data, skipReplayCheck, NoReads, {}, FALSE, fl)
             /\ UNCHANGED calls
        ELSE /\ calls < MaxCalls
             /\ calls' = calls + 1
             /\ pc' = [pc EXCEPT ![p] = "isCounterUsed"]
             /\ msg' = [msg EXCEPT ![p] = data]
             /\ skip' = [skip EXCEPT ![p] = skipReplayCheck]
             /\ floor' = [floor EXCEPT ![p] = fl]
             /\ last' = NoLast
             /\ UNCHANGED <<count, reads, kvOps, wrote, acceptLog>>
  /\ UNCHANGED <<ledger, recorded, trial>>

\* a caller invokes verifyNTAG424(data, aesKey, skipReplayCheck)
VerifyStart(p, data, skipReplayCheck) ==
  /\ Verify(p, data, skipReplayCheck)
  /\ UNCHANGED probed

\* the same call, with the history of accepted probes kept: the call of
\* the registration flow
VerifyNoted(p, data, skipReplayCheck) ==
  /\ Verify(p, data, skipReplayCheck)
  /\ probed' =
       IF skipReplayCheck /\ SyncResult[data][TRUE].valid
       THEN [msg  |-> data,
             mark |-> Len(recorded[SyncResult[data][TRUE].uid]) + 1]
       ELSE probed

\* checkReplayAttack: const used = await isCounterUsed(uid, counter)
IsCounterUsed(p) ==
  /\ pc[p] = "isCounterUsed"
  /\ LET uid     == ParsedOf[msg[p]].uid
         counter == ParsedOf[msg[p]].counter
         used    == isCounterUsed(uid, counter)
         r       == [reads[p] EXCEPT !.used = IF used THEN "yes" ELSE "no"]
         ops     == kvOps[p] \cup {"zscore"}
     IN IF used
        THEN ReturnAsync(p, Rejected(ReasonReplay, uid, counter), r, ops,
                         wrote[p])
        ELSE /\ pc' = [pc EXCEPT ![p] = "getMaxCounter"]
             /\ reads' = [reads EXCEPT ![p] = r]
             /\ kvOps' = [kvOps EXCEPT ![p] = ops]
             /\ last' = NoLast
             /\ UNCHANGED <<msg, skip, count, wrote, floor, acceptLog>>
  /\ UNCHANGED <<ledger, calls, recorded, trial, probed>>

\* GetMaxCounter with `counter < maxCounter` for `counter <= maxCounter`
GetMaxCounter_acceptsEqual(p) ==
  /\ pc[p] = "getMaxCounter"
  /\ LET uid        == ParsedOf[msg[p]].uid
         counter    == ParsedOf[msg[p]].counter
         maxCounter == getMaxCounter(uid)
         r          == [reads[p] EXCEPT !.max = maxCounter]
         ops        == kvOps[p] \cup {"zrange"}
     IN IF counter < maxCounter
        THEN ReturnAsync(p, Rejected(ReasonReplay, uid, counter), r, ops,
                         wrote[p])
        ELSE /\ pc' = [pc EXCEPT ![p] = "zadd"]
             /\ reads' = [reads EXCEPT ![p] = r]
             /\ kvOps' = [kvOps EXCEPT ![p] = ops]
             /\ last' = NoLast
             /\ UNCHANGED <<msg, skip, count, wrote, floor, acceptLog>>
  /\ UNCHANGED <<ledger, calls, recorded, trial, probed>>

\* checkReplayAttack: const maxCounter = await getMaxCounter(uid)
GetMaxCounter(p) ==
  /\ pc[p] = "getMaxCounter"
  /\ LET uid        == ParsedOf[msg[p]].uid
         counter    == ParsedOf[msg[p]].counter
         maxCounter == getMaxCounter(uid)
         r          == [reads[p] EXCEPT !.max = maxCounter]
         ops        == kvOps[p] \cup {"zrange"}
     IN IF counter <= maxCounter
        THEN ReturnAsync(p, Rejected(ReasonReplay, uid, counter), r, ops,
                         wrote[p])
        ELSE /\ pc' = [pc EXCEPT ![p] = "zadd"]
             /\ reads' = [reads EXCEPT ![p] = r]
             /\ kvOps' = [kvOps EXCEPT ![p] = ops]
             /\ last' = NoLast
             /\ UNCHANGED <<msg, skip, count, wrote, floor, acceptLog>>
  /\ UNCHANGED <<ledger, calls, recorded, trial, probed>>

\* saveCounter: await kv.zadd(counters:<uid>, {score, member})
SaveCounterZadd(p) ==
  /\ pc[p] = "zadd"
  /\ LET uid     == ParsedOf[msg[p]].uid
         counter == ParsedOf[msg[p]].counter
     IN /\ ledger' = [ledger EXCEPT ![uid] = @ \cup {counter}]
        /\ recorded' = [recorded EXCEPT ![uid] = Append(@, counter)]
  /\ kvOps' = [kvOps EXCEPT ![p] = @ \cup {"zadd"}]
  /\ wrote' = [wrote EXCEPT ![p] = @ \/ ledger' # ledger]
  /\ pc' = [pc EXCEPT ![p] = "zcard"]
  /\ last' = NoLast
  /\ UNCHANGED <<msg, skip, count, reads, floor, calls, acceptLog, trial, probed>>

\* saveCounter: const count = await kv.zcard(...); if (count > 1000) go on
\* to zpopmin, otherwise saveCounter and checkReplayAttack return and the
\* call accepts
SaveCounterZcard(p) ==
  /\ pc[p] = "zcard"
  /\ LET uid     == ParsedOf[msg[p]].uid
         counter == ParsedOf[msg[p]].counter
         n       == Cardinality(ledger[uid])
         ops     == kvOps[p] \cup {"zcard"}
     IN IF n > Capacity
        THEN /\ count' = [count EXCEPT ![p] = n]
             /\ pc' = [pc EXCEPT ![p] = "zpopmin"]
             /\ kvOps' = [kvOps EXCEPT ![p] = ops]
             /\ last' = NoLast
             /\ UNCHANGED <<msg, skip, reads, wrote, floor, acceptLog>>
        ELSE ReturnAsync(p, Accepted(uid, counter), reads[p], ops, wrote[p])
  /\ UNCHANGED <<ledger, calls, recorded, trial, probed>>

\* saveCounter: await kv.zpopmin(..., count - 1000), then the call accepts
SaveCounterZpopmin(p) ==
  /\ pc[p] = "zpopmin"
  /\ LET uid     == ParsedOf[msg[p]].uid
         counter == ParsedOf[msg[p]].counter
     IN /\ ledger' = [ledger EXCEPT ![uid] = zpopmin(@, count[p] - Capacity)]
        /\ ReturnAsync(p, Accepted(uid, counter), reads[p],
                       kvOps[p] \cup {"zpopmin"}, wrote[p] \/ ledger' # ledger)
  /\ UNCHANGED <<calls, recorded, trial, probed>>

\* KvFail with the failure of the store taken for a passed replay check
KvFail_failOpen(p) ==
  /\ pc[p] \in KvPcs
  /\ ReturnAsync(p, Accepted(ParsedOf[msg[p]].uid, ParsedOf[msg[p]].counter),
                 reads[p], kvOps[p], wrote[p])
  /\ UNCHANGED <<ledger, calls, recorded, trial, probed>>

\* the store does not answer the awaited operation: the kv client throws,
\* verifyNTAG424's catch returns the error result
KvFail(p) ==
  /\ pc[p] \in KvPcs
  /\ ReturnAsync(p, Rejected(ReasonError, NoUid, NoCounter), reads[p],
                 kvOps[p], wrote[p])
  /\ UNCHANGED <<ledger, calls, recorded, trial, probed>>

\* the promise of the awaited operation never settles: neither an answer
\* nor an error reaches the call, which stays at its await
KvHang(p) ==
  /\ pc[p] \in KvPcs
  /\ pc' = [pc EXCEPT ![p] = "hung"]
  /\ last' = NoLast
  /\ UNCHANGED <<ledger, msg, skip, count, reads, kvOps, wrote, floor, calls,
                 acceptLog, recorded, trial, probed>>

----------------------------------------------------------------------------
(* The routes: app/api/register-tag and app/api/verify-tag, and lib/kv's   *)
(* tag owners                                                              *)

\* session.user.email of the signed-in users; NoUser for a request without
\* a session (the email is missing, a falsy value)
Users == {"alice@example.com", "bob@example.com"}
NoUser == ""

\* kv.get's answer for a key that holds nothing (null, a falsy value)
NoOwner == ""

\* parseNTAG424Data(tagData.piccData) as the verify-tag route calls it,
\* with no key, for every message, computed once
KeylessOf ==
  [m \in Messages |-> parsePICCData(MessageTable[m].piccData, <<>>)]

\* the uids a tag:<uid> key is read or written with: those verifyNTAG424
\* returns and those the keyless parse returns
TagKeys ==
  Uids \cup {KeylessOf[m].uid : m \in {x \in Messages : KeylessOf[x].ok}}

\* a request no route handler is serving
NoRoute == [name |-> "none", at |-> "idle", user |-> NoUser, uid |-> NoUid,
            data |-> NoMessage, owner |-> NoOwner]

NoReply == [route |-> "none", status |-> 0, message |-> "", user |-> NoUser,
            uid |-> NoUid, strict |-> FALSE, valid |-> FALSE,
            owner |-> NoOwner]

\* NextResponse.json(...) of the route `name`: the status, the message, the
\* signed-in user, data.uid, and for verify-tag the mode and the verdict of
\* its verifyNTAG424 call and the owner it had read
Reply(name, status, message, user, uid, strict, valid, ownerRead) ==
  [route |-> name, status |-> status, message |-> message, user |-> user,
   uid |-> uid, strict |-> strict, valid |-> valid, owner |-> ownerRead]

\* the handler of request p returns the response
Respond(p, response) ==
  /\ route' = [route EXCEPT ![p] = NoRoute]
  /\ reply' = response

\* register-tag POST up to its first store operation: the session, the body
RegisterStart(p, user, uid) ==
  /\ route[p] = NoRoute
  /\ pc[p] = "idle"
  /\ IF user = NoUser
     THEN Respond(p, Reply("register", 401,
                           "Unauthorized - Please login first", user, NoUid,
                           FALSE, FALSE, NoOwner))
     ELSE IF uid = NoUid
     THEN Respond(p, Reply("register", 400,
                           "Missing required parameter: uid", user, NoUid,
                           FALSE, FALSE, NoOwner))
     ELSE /\ route' = [route EXCEPT ![p] =
                         [name |-> "register", at |-> "getTagOwner",
                          user |-> user, uid |-> uid, data |-> NoMessage,
                          owner |-> NoOwner]]
          /\ reply' = NoReply
  /\ UNCHANGED <<core, owner>>

\* register-tag: const existingOwner = await getTagOwner(uid)
RegisterGetOwner(p) ==
  /\ route[p].name = "register"
  /\ route[p].at = "getTagOwner"
  /\ LET existingOwner == owner[route[p].uid]
     IN IF existingOwner # NoOwner
        THEN IF existingOwner = route[p].user
             THEN Respond(p, Reply("register", 400,
                                   "Tag already registered to you",
                                   route[p].user, route[p].uid, FALSE, FALSE,
                                   existingOwner))
             ELSE Respond(p, Reply("register", 403,
                                   "Tag already registered to another user",
                                   route[p].user, route[p].uid, FALSE, FALSE,
                                   existingOwner))
        ELSE /\ route' = [route EXCEPT ![p].at = "registerTag"]
             /\ reply' = NoReply
  /\ UNCHANGED <<core, owner>>

\* register-tag: await registerTag(uid, session.user.email), that is
\* kv.set(tag:<uid>, email), then the success response
RegisterTag(p) ==
  /\ route[p].name = "register"
  /\ route[p].at = "registerTag"
  /\ owner' = [owner EXCEPT ![route[p].uid] = route[p].user]
  /\ Respond(p, Reply("register", 200, "Tag registered successfully",
                      route[p].user, route[p].uid, FALSE, FALSE, NoOwner))
  /\ UNCHANGED core

\* the store does not answer kv.get or kv.set: the route's catch answers
\* 500
RouteKvFail(p) ==
  /\ route[p].at \in {"getTagOwner", "registerTag"}
  /\ Respond(p, Reply(route[p].name, 500, "Internal server error",
                      route[p].user, NoUid, FALSE, FALSE, NoOwner))
  /\ UNCHANGED <<core, owner>>

\* verify-tag POST up to its first store operation: the session, the body
\* (piccData and cmac given, the AES key configured), the keyless parse
VerifyTagStart(p, user, data) ==
  /\ route[p] = NoRoute
  /\ pc[p] = "idle"
  /\ LET tagData    == MessageTable[data]
         parsedData == KeylessOf[data]
     IN IF user = NoUser
        THEN Respond(p, Reply("verify", 401, "Unauthorized", user, NoUid,
                              FALSE, FALSE, NoOwner))
        ELSE IF tagData.piccData = <<>> \/ tagData.cmac = <<>>
        THEN Respond(p, Reply("verify", 400, "Missing required parameters",
                              user, NoUid, FALSE, FALSE, NoOwner))
        ELSE IF ~parsedData.ok
        THEN Respond(p, Reply("verify", 400, "Invalid tag data format", user,
                              NoUid, FALSE, FALSE, NoOwner))
        ELSE /\ route' = [route EXCEPT ![p] =
                            [name |-> "verify", at |-> "getTagOwner",
                             user |-> user, uid |-> parsedData.uid,
                             data |-> data, owner |-> NoOwner]]
             /\ reply' = NoReply
  /\ UNCHANGED <<core, owner>>

\* verify-tag: const owner = await getTagOwner(parsedData.uid)
VerifyTagGetOwner(p) ==
  /\ route[p].name = "verify"
  /\ route[p].at = "getTagOwner"
  /\ route' = [route EXCEPT ![p].at = "verifyNTAG424",
                            ![p].owner = owner[route[p].uid]]
  /\ reply' = NoReply
  /\ UNCHANGED <<core, owner>>

\* verify-tag: the response to the verdict of its verifyNTAG424 call
VerifyTagResponse(r, result) ==
  IF r.owner = NoOwner
  THEN IF ~result.valid /\ result.reason # ReasonReplay
       THEN Reply("verify", 400, "Tag verification failed", r.user,
                  result.uid, FALSE, result.valid, r.owner)
       ELSE Reply("verify", 200, "Tag not registered", r.user, r.uid, FALSE,
                  result.valid, r.owner)
  ELSE IF ~result.valid
  THEN Reply("verify", 400, "Tag verification failed", r.user, result.uid,
             TRUE, result.valid, r.owner)
  ELSE IF r.owner # r.user
  THEN Reply("verify", 403, "Access denied", r.user, result.uid, TRUE,
             result.valid, r.owner)
  ELSE Reply("verify", 200, "Access granted", r.user, result.uid, TRUE,
             result.valid, r.owner)

\* verify-tag after a step of its verifyNTAG424 call: when the call has
\* returned, the route answers
VerifyTagAnswer(p) ==
  /\ IF pc'[p] = "idle"
     THEN Respond(p, VerifyTagResponse(route[p], last'.result))
     ELSE /\ route' = route
          /\ reply' = NoReply
  /\ owner' = owner

\* verify-tag calling verifyNTAG424(tagData, aesKey) in strict mode whether
\* or not the tag has an owner, as the older route did
VerifyTagVerify_strictOnly(p) ==
  /\ route[p].name = "verify"
  /\ route[p].at = "verifyNTAG424"
  /\ Verify(p, route[p].data, FALSE)
  /\ UNCHANGED probed
  /\ VerifyTagAnswer(p)

\* verify-tag: await verifyNTAG424(tagData, aesKey, skipReplayCheck), in
\* probe mode for a tag without owner, in strict mode otherwise
VerifyTagVerify(p) ==
  /\ route[p].name = "verify"
  /\ route[p].at = "verifyNTAG424"
  /\ Verify(p, route[p].data, route[p].owner = NoOwner)
  /\ UNCHANGED probed
  /\ VerifyTagAnswer(p)

----------------------------------------------------------------------------
(* app/page.tsx: HomeContent, the page a tap opens in one browser tab      *)

\* session.user.email of the user of the tab
PageUser == "alice@example.com"

\* the page as it mounts: useSession has no session yet, the tap of the URL
\* is the first tap of the first tag; loading, result (its message and
\* data.uid) and showRegisterDialog are the component's state.  `pending`
\* says registerCurrentTag is about to await verifyTag().  History: `sent`
\* says a verification request for the tap has been sent since the page
\* loaded it or since the user registered the tag, `resent` that one was
\* sent when `sent` held
PageInit ==
  [session |-> "none", tap |-> 1, loading |-> FALSE, result |-> "",
   uid |-> NoUid, dialog |-> FALSE, pending |-> FALSE, sent |-> FALSE,
   resent |-> FALSE]

\* the session object a refetch of the session gives: a new object for the
\* same user
Refetched(session) == IF session = "s1" THEN "s2" ELSE "s1"

\* verifyTag() up to its fetch: setLoading(true), setResult(null)
verifyTagSent(pg) ==
  [pg EXCEPT !.loading = TRUE, !.result = "", !.uid = NoUid,
             !.pending = FALSE, !.sent = TRUE,
             !.resent = pg.resent \/ pg.sent]

\* the page pg after the step: a response to a request of the tab reaches
\* the code that awaits it.  verifyTag: setResult(data), the register
\* dialog for needsRegistration, finally setLoading(false).
\* registerCurrentTag: on success it goes on to verifyTag(), otherwise it
\* alerts, finally setLoading(false)
PageReceives(pg) ==
  page' =
    IF reply'.route = "verify"
    THEN [pg EXCEPT !.result = reply'.message, !.uid = reply'.uid,
                    !.loading = FALSE,
                    !.dialog = (reply'.message = "Tag not registered")
                                 \/ pg.dialog]
    ELSE IF reply'.route = "register"
    THEN IF reply'.status = 200
         THEN [pg EXCEPT !.pending = TRUE, !.sent = FALSE]
         ELSE [pg EXCEPT !.loading = FALSE]
    ELSE pg

\* useSession gives the session of the signed-in user: the effect on
\* [piccData, cmac, session, verifyTag] runs and calls verifyTag()
PageSignIn(p) ==
  /\ page.session = "none"
  /\ VerifyTagStart(p, PageUser, page.tap)
  /\ PageReceives(verifyTagSent([page EXCEPT !.session = "s1"]))

\* the session is refetched (the window regains focus, the session is
\* polled or updated): useSession gives a new session object, the effect
\* on [piccData, cmac, session, verifyTag] runs again and calls verifyTag()
PageSessionRefresh(p) ==
  /\ page.session # "none"
  /\ VerifyTagStart(p, PageUser, page.tap)
  /\ PageReceives(verifyTagSent(
         [page EXCEPT !.session = Refetched(page.session)]))

\* the URL takes the parameters of the next tap: the effect on [piccData,
\* cmac] clears result and dialog, the effect with verifyTag() runs
PageNavigate(p) ==
  /\ page.session # "none"
  /\ page.tap = 1
  /\ VerifyTagStart(p, PageUser, 2)
  /\ PageReceives(verifyTagSent(
         [page EXCEPT !.tap = 2, !.result = "", !.uid = NoUid,
                      !.dialog = FALSE, !.sent = FALSE]))

\* the user confirms the register dialog: registerCurrentTag() up to its
\* fetch, with the uid of the result shown
PageRegisterCurrentTag(p) ==
  /\ page.dialog
  /\ page.result = "Tag not registered"
  /\ page.uid # NoUid
  /\ ~page.loading
  /\ RegisterStart(p, PageUser, page.uid)
  /\ PageReceives([page EXCEPT !.loading = TRUE, !.dialog = FALSE])

\* registerCurrentTag after a successful registration: await verifyTag()
PageVerifyRegistered(p) ==
  /\ page.pending
  /\ VerifyTagStart(p, PageUser, page.tap)
  /\ PageReceives(verifyTagSent(page))

\* no route handler takes a step, and the page with it
NoRouteStep == UNCHANGED <<owner, route, reply, page>>

\* the page takes no step and receives no response
NoPageStep == UNCHANGED page

\* no probe call accepted yet
NoProbe == [msg |-> NoMessage, mark |-> 0]

\* no session key derived
NoDerived == [ok |-> FALSE, sv2 |-> <<>>, sessionKey |-> <<>>, at |-> 0,
              before |-> <<>>, beforeAt |-> 0]

\* the number of counters zadd has stored so far, over all UIDs
Recordings ==
  Cardinality(UNION {{<<u, i>> : i \in 1..Len(recorded[u])} : u \in Uids})

\* no helper applied yet
NoTrial == [kind |-> "none", data |-> [piccData |-> <<>>, cmac |-> <<>>],
            aesKey |-> <<>>, passed |-> FALSE, parsed |-> NoParse,
            derived |-> NoDerived, examined |-> 0]

Init ==
  /\ ledger = [u \in Uids |-> {}]
  /\ pc = [p \in Procs |-> "idle"]
  /\ msg = [p \in Procs |-> NoMessage]
  /\ skip = [p \in Procs |-> FALSE]
  /\ count = [p \in Procs |-> 0]
  /\ reads = [p \in Procs |-> NoReads]
  /\ kvOps = [p \in Procs |-> {}]
  /\ wrote = [p \in Procs |-> FALSE]
  /\ floor = [p \in Procs |-> 0]
  /\ last = NoLast
  /\ calls = 0
  /\ acceptLog = [u \in Uids |-> <<>>]
  /\ recorded = [u \in Uids |-> <<>>]
  /\ trial = NoTrial
  /\ probed = NoProbe
  /\ owner = [k \in TagKeys |-> NoOwner]
  /\ route = [p \in Procs |-> NoRoute]
  /\ reply = NoReply
  /\ page = PageInit

Next ==
  \E p \in Procs :
    \/ \E data \in TapMessages, s \in BOOLEAN :
         VerifyStart(p, data, s) /\ NoRouteStep
    \/ (IsCounterUsed(p) /\ NoRouteStep)
    \/ (GetMaxCounter(p) /\ NoRouteStep)
    \/ (SaveCounterZadd(p) /\ NoRouteStep)
    \/ (SaveCounterZcard(p) /\ NoRouteStep)
    \/ (SaveCounterZpopmin(p) /\ NoRouteStep)
    \/ (KvFail(p) /\ NoRouteStep)

Spec == Init /\ [][Next]_vars

\* the requests served one after another: a call starts only when no
\* other call is in progress
AllIdle == \A q \in Procs : pc[q] = "idle"

NextSeq ==
  \E p \in Procs :
    \/ \E data \in TapMessages, s \in BOOLEAN :
         AllIdle /\ VerifyStart(p, data, s) /\ NoRouteStep
    \/ (IsCounterUsed(p) /\ NoRouteStep)
    \/ (GetMaxCounter(p) /\ NoRouteStep)
    \/ (SaveCounterZadd(p) /\ NoRouteStep)
    \/ (SaveCounterZcard(p) /\ NoRouteStep)
    \/ (SaveCounterZpopmin(p) /\ NoRouteStep)
    \/ (KvFail(p) /\ NoRouteStep)

SpecSeq == Init /\ [][NextSeq]_vars

\* the registration flow: the calls served one after another, a probe of a
\* tap and strict verifications, the accepted probes remembered
NextProbe ==
  \E p \in Procs :
    \/ \E data \in TapMessages, s \in BOOLEAN :
         AllIdle /\ VerifyNoted(p, data, s) /\ NoRouteStep
    \/ (IsCounterUsed(p) /\ NoRouteStep)
    \/ (GetMaxCounter(p) /\ NoRouteStep)
    \/ (SaveCounterZadd(p) /\ NoRouteStep)
    \/ (SaveCounterZcard(p) /\ NoRouteStep)
    \/ (SaveCounterZpopmin(p) /\ NoRouteStep)
    \/ (KvFail(p) /\ NoRouteStep)

SpecProbe == Init /\ [][NextProbe]_vars

----------------------------------------------------------------------------
(* The MAC step on its own, over provided MACs that differ from the        *)
(* genuine one in one character, in length, or belong to another tap       *)

\* the cmac strings tried against the tap g: the genuine one, it with the
\* character at one position changed, cut to 7 bytes, extended to 9, with
\* a character that is no hex digit, and the one of another tap
CmacVariants(g) ==
  {g.cmac}
  \cup {[g.cmac EXCEPT ![i] = (@ + d) % 16] : i \in 1..16, d \in {1, 8}}
  \cup {SubSeq(g.cmac, 1, 14), g.cmac \o <<0, 0>>}
  \cup {[g.cmac EXCEPT ![i] = NonHex] : i \in {1, 16}}
  \cup {GenuineMessages[k].cmac : k \in 1..Len(GenuineMessages)}

\* verifyCMAC's truncatedCMAC for every genuine tap, computed once
TruncatedCmacOf ==
  [g \in {GenuineMessages[k] : k \in 1..Len(GenuineMessages)} |->
     LET parsed == parsePICCData(g.piccData, AesKeyHex)
     IN SubSeq(aesCmac(generateSDMSessionKey(AesKeyBytes, parsed.uid,
                                             parsed.counter), <<>>), 1, 8)]

MacTrial(g, c) ==
  /\ \E passed \in {macCheck([piccData |-> g.piccData, cmac |-> c],
                              AesKeyHex)} :
       \E n \in bytesExamined(TruncatedCmacOf[g], hexToBuffer(c)) :
         trial' = [kind   |-> "mac",
                   data   |-> [piccData |-> g.piccData, cmac |-> c],
                   aesKey |-> AesKeyHex,
                   passed |-> passed,
                   parsed |-> NoParse,
                   derived |-> NoDerived,
                   examined |-> n]
  /\ UNCHANGED <<ledger, pc, msg, skip, count, reads, kvOps, wrote, floor,
                 last, calls, acceptLog, recorded, probed, owner, route,
                 reply, page>>

NextMac ==
  \E k \in 1..Len(GenuineMessages) :
    \E c \in CmacVariants(GenuineMessages[k]) :
      MacTrial(GenuineMessages[k], c)

SpecMac == Init /\ [][NextMac]_vars

----------------------------------------------------------------------------
(* The PICC decoder on its own (parseNTAG424Data), over piccData strings   *)
(* that are genuine, damaged or of a wrong length, with and without a key  *)

\* the piccData strings tried for the tap g: the genuine one, it with one
\* character replaced by one that is no hex digit, followed by characters
\* that are no hex digits, cut to 15 bytes, extended to 17 bytes, doubled
\* to two blocks, cut to one character short of a block, and empty
PiccVariants(g) ==
  {g.piccData}
  \cup {[g.piccData EXCEPT ![i] = NonHex] : i \in 1..Len(g.piccData)}
  \cup {g.piccData \o <<NonHex, NonHex>>,
        SubSeq(g.piccData, 1, 30),
        g.piccData \o <<0, 0>>,
        g.piccData \o g.piccData,
        SubSeq(g.piccData, 1, 31),
        <<>>}

\* the aesKey arguments tried: the deployment key, none, and a key that is
\* one byte short
KeyVariants == {AesKeyHex, <<>>, SubSeq(AesKeyHex, 1, 30)}

ParseTrial(piccData, aesKey) ==
  /\ trial' = [kind   |-> "parse",
               data   |-> [piccData |-> piccData, cmac |-> <<>>],
               aesKey |-> aesKey,
               passed |-> FALSE,
               parsed |-> parsePICCData(piccData, aesKey),
               derived |-> NoDerived,
               examined |-> 0]
  /\ UNCHANGED <<ledger, pc, msg, skip, count, reads, kvOps, wrote, floor,
                 last, calls, acceptLog, recorded, probed, owner, route,
                 reply, page>>

NextParse ==
  \E k \in 1..Len(GenuineMessages) :
    \E d \in PiccVariants(GenuineMessages[k]), key \in KeyVariants :
      ParseTrial(d, key)

SpecParse == Init /\ [][NextParse]_vars

----------------------------------------------------------------------------
(* The session key derivation on its own: verifyNTAG424 from its start to  *)
(* generateSDMSessionKey, over taps of tags with UIDs and read counters    *)
(* that use every byte, verified under the tags' key and under another     *)

\* UIDs of the tags tapped
DeriveUids ==
  {UidA, UidB, [i \in 1..7 |-> 0], [i \in 1..7 |-> 255],
   <<1, 35, 69, 103, 137, 171, 205>>}

\* read counters of the taps: the ends of the 24 bit range and values
\* around the byte boundaries
DeriveCounters ==
  {0, 1, 2, 255, 256, 257, 65535, 65536, 66051, 197121, 8388608, 16777215}

\* a deployment key different from the tags' key
OtherKeyHex == toHex([i \in 1..16 |-> 11 * (17 - i)])

\* the taps and keys derivations are made for
DeriveInputs ==
  {TagMessage(u, c) : u \in DeriveUids, c \in DeriveCounters}
  \cup {GenuineMessages[k] : k \in 1..Len(GenuineMessages)}
DeriveKeys == {AesKeyHex, OtherKeyHex}

\* verifyNTAG424 up to const { uid, counter } = parsed, for every tap and
\* key, computed once: whether decryptSUNMessage threw, and what
\* parsePICCData returned
DecodedForDerive ==
  [data \in DeriveInputs |->
     [aesKey \in DeriveKeys |->
        [threw  |-> decryptSUNMessage(hexToBuffer(data.piccData),
                                      hexToBuffer(aesKey), ZeroIV).threw,
         parsed |-> parsePICCData(data.piccData, aesKey)]]]

\* the call has come to the session key (or returned before): what was
\* derived and after how many recordings, and the same of the derivation
\* just before if it had the same inputs
Derived(data, aesKey, sessionKey) ==
  /\ LET dec  == DecodedForDerive[data][aesKey]
         same == /\ trial.kind = "derive"
                 /\ trial.aesKey = aesKey
                 /\ trial.parsed = dec.parsed
     IN trial' = [kind   |-> "derive",
                  data   |-> data,
                  aesKey |-> aesKey,
                  passed |-> FALSE,
                  parsed |-> dec.parsed,
                  examined |-> 0,
                  derived |->
                    IF dec.threw \/ ~dec.parsed.ok THEN NoDerived
                    ELSE [ok  |-> TRUE,
                          sv2 |-> SV2(dec.parsed.uid, dec.parsed.counter),
                          sessionKey |-> sessionKey,
                          at  |-> Recordings,
                          before |-> IF same THEN trial.derived.sessionKey
                                     ELSE <<>>,
                          beforeAt |-> IF same THEN trial.derived.at ELSE 0]]
  /\ UNCHANGED <<ledger, pc, msg, skip, count, reads, kvOps, wrote, floor,
                 last, calls, acceptLog, recorded, probed, owner, route,
                 reply, page>>

\* DeriveTrial with a deriver that takes the read counter from the ledger
DeriveTrial_fromLedger(data, aesKey) ==
  Derived(data, aesKey,
          generateSDMSessionKey_fromLedger(
            hexToBuffer(aesKey), DecodedForDerive[data][aesKey].parsed.uid,
            DecodedForDerive[data][aesKey].parsed.counter))

\* verifyNTAG424 up to const sessionKey = generateSDMSessionKey(key, uid,
\* counter)
DeriveTrial(data, aesKey) ==
  Derived(data, aesKey,
          generateSDMSessionKey(
            hexToBuffer(aesKey), DecodedForDerive[data][aesKey].parsed.uid,
            DecodedForDerive[data][aesKey].parsed.counter))

NextDerive ==
  \E u \in DeriveUids, c \in DeriveCounters, key \in DeriveKeys :
    DeriveTrial(TagMessage(u, c), key)

SpecDerive == Init /\ [][NextDerive]_vars

\* derivations for the taps of the two tags between verifications served
\* one after another, which change the ledger
NextDeriveSeq ==
  \/ \E k \in 1..Len(GenuineMessages), key \in DeriveKeys :
       DeriveTrial(GenuineMessages[k], key)
  \/ NextSeq

SpecDeriveSeq == Init /\ [][NextDeriveSeq]_vars

----------------------------------------------------------------------------
(* The register-tag route on its own: requests of signed-in users and of   *)
(* callers without a session, for the UIDs of the tags and for none,       *)
(* served concurrently                                                     *)

NextRegister ==
  \E p \in Procs :
    \/ \E user \in Users \cup {NoUser}, uid \in Uids \cup {NoUid} :
         RegisterStart(p, user, uid) /\ NoPageStep
    \/ (RegisterGetOwner(p) /\ NoPageStep)
    \/ (RegisterTag(p) /\ NoPageStep)
    \/ (RouteKvFail(p) /\ NoPageStep)

SpecRegister == Init /\ [][NextRegister]_vars

----------------------------------------------------------------------------
(* The two routes together: users present taps to verify-tag and register  *)
(* the uid a 'Tag not registered' answer reported, as the page does, the   *)
(* requests served concurrently                                            *)

\* the taps presented to verify-tag: the first two taps of the first tag
WebMessages == {1, 2}

\* who presents them: one signed-in user, or nobody signed in
WebVerifiers == {"alice@example.com", NoUser}

\* the uids registered: those a 'Tag not registered' answer reported for
\* the two taps, which the keyless parse gave
WebUids == {KeylessOf[1].uid, KeylessOf[2].uid}

NextWeb ==
  \E p \in Procs :
    \/ \E user \in Users, uid \in WebUids :
         RegisterStart(p, user, uid) /\ NoPageStep
    \/ (RegisterGetOwner(p) /\ NoPageStep)
    \/ (RegisterTag(p) /\ NoPageStep)
    \/ (RouteKvFail(p) /\ NoPageStep)
    \/ \E user \in WebVerifiers, data \in WebMessages :
         VerifyTagStart(p, user, data) /\ NoPageStep
    \/ (VerifyTagGetOwner(p) /\ NoPageStep)
    \/ (VerifyTagVerify(p) /\ NoPageStep)
    \/ (IsCounterUsed(p) /\ VerifyTagAnswer(p) /\ NoPageStep)
    \/ (GetMaxCounter(p) /\ VerifyTagAnswer(p) /\ NoPageStep)
    \/ (SaveCounterZadd(p) /\ VerifyTagAnswer(p) /\ NoPageStep)
    \/ (SaveCounterZcard(p) /\ VerifyTagAnswer(p) /\ NoPageStep)
    \/ (SaveCounterZpopmin(p) /\ VerifyTagAnswer(p) /\ NoPageStep)
    \/ (KvFail(p) /\ VerifyTagAnswer(p) /\ NoPageStep)

SpecWeb == Init /\ [][NextWeb]_vars

----------------------------------------------------------------------------
(* verify-tag for tags with and without an owner: one user registers the   *)
(* uids the answers reported and presents genuine taps and a tap whose MAC *)
(* was changed                                                             *)

\* the taps presented: the first two taps of the first tag, and the first
\* with a changed MAC
UnownedMessages == {1, 2, Len(GenuineMessages) + 1}

\* the user who registers and presents them
UnownedUsers == {"alice@example.com"}

NextUnowned ==
  \E p \in Procs :
    \/ \E user \in UnownedUsers, uid \in WebUids :
         RegisterStart(p, user, uid) /\ NoPageStep
    \/ (RegisterGetOwner(p) /\ NoPageStep)
    \/ (RegisterTag(p) /\ NoPageStep)
    \/ (RouteKvFail(p) /\ NoPageStep)
    \/ \E user \in UnownedUsers, data \in UnownedMessages :
         VerifyTagStart(p, user, data) /\ NoPageStep
    \/ (VerifyTagGetOwner(p) /\ NoPageStep)
    \/ (VerifyTagVerify(p) /\ NoPageStep)
    \/ (IsCounterUsed(p) /\ VerifyTagAnswer(p) /\ NoPageStep)
    \/ (GetMaxCounter(p) /\ VerifyTagAnswer(p) /\ NoPageStep)
    \/ (SaveCounterZadd(p) /\ VerifyTagAnswer(p) /\ NoPageStep)
    \/ (SaveCounterZcard(p) /\ VerifyTagAnswer(p) /\ NoPageStep)
    \/ (SaveCounterZpopmin(p) /\ VerifyTagAnswer(p) /\ NoPageStep)
    \/ (KvFail(p) /\ VerifyTagAnswer(p) /\ NoPageStep)

SpecUnowned == Init /\ [][NextUnowned]_vars

----------------------------------------------------------------------------
(* A tap with read counter 0 among the taps of its tag: the calls of       *)
(* verifyNTAG424 in either mode, served concurrently                       *)

\* the messages verified: the tap with counter 0 and the first two taps of
\* the same tag
ZeroInputs == {ZeroMessage, 1, 2}

NextZero ==
  \E p \in Procs :
    \/ \E data \in ZeroInputs, s \in BOOLEAN :
         VerifyStart(p, data, s) /\ NoRouteStep
    \/ (IsCounterUsed(p) /\ NoRouteStep)
    \/ (GetMaxCounter(p) /\ NoRouteStep)
    \/ (SaveCounterZadd(p) /\ NoRouteStep)
    \/ (SaveCounterZcard(p) /\ NoRouteStep)
    \/ (SaveCounterZpopmin(p) /\ NoRouteStep)
    \/ (KvFail(p) /\ NoRouteStep)

SpecZero == Init /\ [][NextZero]_vars

----------------------------------------------------------------------------
(* One browser tab and the two routes: the page sends its requests as its  *)
(* effects and its user make it, the routes serve them concurrently        *)

NextPage ==
  \E p \in Procs :
    \/ PageSignIn(p)
    \/ PageSessionRefresh(p)
    \/ PageNavigate(p)
    \/ PageRegisterCurrentTag(p)
    \/ PageVerifyRegistered(p)
    \/ (RegisterGetOwner(p) /\ PageReceives(page))
    \/ (RegisterTag(p) /\ PageReceives(page))
    \/ (RouteKvFail(p) /\ PageReceives(page))
    \/ (VerifyTagGetOwner(p) /\ PageReceives(page))
    \/ (VerifyTagVerify(p) /\ PageReceives(page))
    \/ (IsCounterUsed(p) /\ VerifyTagAnswer(p) /\ PageReceives(page))
    \/ (GetMaxCounter(p) /\ VerifyTagAnswer(p) /\ PageReceives(page))
    \/ (SaveCounterZadd(p) /\ VerifyTagAnswer(p) /\ PageReceives(page))
    \/ (SaveCounterZcard(p) /\ VerifyTagAnswer(p) /\ PageReceives(page))
    \/ (SaveCounterZpopmin(p) /\ VerifyTagAnswer(p) /\ PageReceives(page))
    \/ (KvFail(p) /\ VerifyTagAnswer(p) /\ PageReceives(page))

SpecPage == Init /\ [][NextPage]_vars

----------------------------------------------------------------------------
(* The calls of verifyNTAG424 over a store whose operations answer, throw  *)
(* or never settle, the continuation of every settled await run in the end *)

\* the messages verified: the first two taps of the first tag
LiveInputs == {1, 2}

\* the awaited ledger operation of request p settles and the call goes on
Continue(p) ==
  \/ (IsCounterUsed(p) /\ NoRouteStep)
  \/ (GetMaxCounter(p) /\ NoRouteStep)
  \/ (SaveCounterZadd(p) /\ NoRouteStep)
  \/ (SaveCounterZcard(p) /\ NoRouteStep)
  \/ (SaveCounterZpopmin(p) /\ NoRouteStep)
  \/ (KvFail(p) /\ NoRouteStep)

NextLive ==
  \E p \in Procs :
    \/ \E data \in LiveInputs, s \in BOOLEAN :
         VerifyStart(p, data, s) /\ NoRouteStep
    \/ Continue(p)
    \/ (KvHang(p) /\ NoRouteStep)

\* the event loop runs the continuation of an await whose promise settled
SpecLive ==
  Init /\ [][NextLive]_vars /\ \A p \in Procs : WF_vars(Continue(p))

----------------------------------------------------------------------------
(* What the claims speak of, stated from the message bytes and the         *)
(* primitives alone                                                        *)

\* every character of the string is a hex digit, and they come in pairs
ValidHex(hex) ==
  /\ Len(hex) % 2 = 0
  /\ \A i \in 1..Len(hex) : hex[i] # NonHex

\* the bytes the piccData string yields are a positive whole number of
\* blocks: the decode stage of verifyNTAG424 does not fail
Decodes(data) ==
  LET n == Len(hexToBuffer(data.piccData))
  IN n > 0 /\ n % 16 = 0

\* the plaintext of a message that decodes
PlainOf(data) ==
  decryptSUNMessage(hexToBuffer(data.piccData), AesKeyBytes, ZeroIV).data

\* the first 8 bytes of CMAC(sessionKey, empty), sessionKey = CMAC(base
\* key, SV2 of the UID at plaintext offsets 1..7 and the counter at 8..10)
ExpectedMac(data) ==
  LET pt == PlainOf(data)
      sv == <<60, 195, 0, 1, 0, 128>> \o SubSeq(pt, 2, 8) \o SubSeq(pt, 9, 11)
  IN SubSeq(aesCmac(aesCmac(AesKeyBytes, sv), <<>>), 1, 8)

\* the message decodes and carries the MAC of what it decodes to
MacValid(data) ==
  /\ Decodes(data)
  /\ Len(hexToBuffer(data.cmac)) = 8
  /\ hexToBuffer(data.cmac) = ExpectedMac(data)

MacValidOf == [m \in Messages |-> MacValid(MessageTable[m])]
DecodedUidOf ==
  [m \in Messages |->
     IF Decodes(MessageTable[m])
     THEN toHex(SubSeq(PlainOf(MessageTable[m]), 2, 8)) ELSE NoUid]
DecodedCounterOf ==
  [m \in Messages |->
     IF Decodes(MessageTable[m])
     THEN readUIntLE3(PlainOf(MessageTable[m]), 8) ELSE NoCounter]

\* how often counter c stands in the sequence log
Occurrences(log, c) == Cardinality({i \in 1..Len(log) : log[i] = c})

\* the latest step returned a strict call / a probe call
StrictReturned == last.result.done /\ ~last.skip
ProbeReturned == last.result.done /\ last.skip

\* the replay decision the call that returned read from the ledger
ReplayPassed ==
  /\ last.reads.used = "no"
  /\ last.reads.max # NoCounter
  /\ last.result.counter > last.reads.max

----------------------------------------------------------------------------
(* C1: with the strict verifications served one after another, no counter  *)
(* is accepted (valid=true) more than once for a UID.                      *)
C1_NoCounterAcceptedTwice ==
  \A u \in Uids : \A c \in Counters : Occurrences(acceptLog[u], c) <= 1

\* a counter accepted before was submitted again in strict mode and rejected
C1_Witness ==
  /\ StrictReturned
  /\ MacValidOf[last.msg]
  /\ last.result.reason = ReasonReplay
  /\ Occurrences(acceptLog[last.result.uid], last.result.counter) = 1

(* C2: of two strict verifications of the same UID and counter that run    *)
(* concurrently (the second started before the first was accepted), at     *)
(* most one is accepted.                                                   *)
C2_ConcurrentSameCounterOnce ==
  ~ /\ StrictReturned
    /\ last.result.valid
    /\ last.floor < last.result.counter
    /\ Occurrences(acceptLog[last.result.uid], last.result.counter) >= 2

(* C3: an accepted counter was stored (zadd) after lower counters only:    *)
(* no counter lower than one already recorded for the UID is accepted.     *)
C3_AcceptedInRecordingOrder ==
  (StrictReturned /\ last.result.valid) =>
    LET log == recorded[last.result.uid]
    IN \E i \in 1..Len(log) :
         /\ log[i] = last.result.counter
         /\ \A k \in 1..(i - 1) : log[k] <= log[i]

(* C4: a strict verification of a MAC-valid message whose counter is not   *)
(* above the highest counter accepted for its UID when it is submitted is  *)
(* rejected.                                                               *)
C4_NotAboveHighestRejected ==
  (StrictReturned /\ MacValidOf[last.msg]
     /\ DecodedCounterOf[last.msg] <= last.floor)
    => ~last.result.valid

(* C5 as stated: a strict verification of a MAC-valid message accepts and  *)
(* records iff isCounterUsed answered false and the counter is above what  *)
(* getMaxCounter answered; otherwise it rejects and records nothing.       *)
C5_AcceptsIffReplayPassed ==
  (StrictReturned /\ MacValidOf[last.msg]) =>
    /\ (last.result.valid /\ "zadd" \in last.kvOps) <=>
         (last.reads.used = "no" /\ last.reads.max # NoCounter
            /\ DecodedCounterOf[last.msg] > last.reads.max)
    /\ ~last.result.valid => ("zadd" \notin last.kvOps /\ ~last.wrote)

(* C5 amended: it accepts iff isCounterUsed answered false, the counter is *)
(* above what getMaxCounter answered and no ledger operation of the        *)
(* recording failed; it records only after both checks passed; when a      *)
(* check rejects, the reason is the replay reason and nothing is recorded. *)
C5_AcceptsIffReplayPassedAndStored ==
  (StrictReturned /\ MacValidOf[last.msg]) =>
    LET passed == /\ last.reads.used = "no"
                  /\ last.reads.max # NoCounter
                  /\ DecodedCounterOf[last.msg] > last.reads.max
    IN /\ last.result.valid <=> (passed /\ last.result.reason # ReasonError)
       /\ last.result.valid => "zadd" \in last.kvOps
       /\ "zadd" \in last.kvOps => passed
       /\ (~passed /\ last.result.reason # ReasonError) =>
            /\ last.result.reason = ReasonReplay
            /\ ~last.wrote
       /\ ~passed => ("zadd" \notin last.kvOps /\ ~last.wrote)

\* both outcomes of the decision happened: here a rejection by the maximum
\* of a counter that is not in the retained set
C5_Witness ==
  /\ StrictReturned
  /\ MacValidOf[last.msg]
  /\ last.reads.used = "no"
  /\ last.reads.max >= DecodedCounterOf[last.msg]
  /\ last.result.reason = ReasonReplay

(* C6: with skipReplayCheck a message that decodes and passes the MAC      *)
(* check is accepted with uid and counter, whatever the ledger holds, and  *)
(* the call issues no ledger operation.                                    *)
C6_ProbeAcceptsWithoutLedger ==
  /\ \A p \in Procs : pc[p] \in KvPcs => ~skip[p]
  /\ (ProbeReturned /\ MacValidOf[last.msg]) =>
       /\ last.result = Accepted(DecodedUidOf[last.msg],
                                 DecodedCounterOf[last.msg])
       /\ last.kvOps = {}
       /\ ~last.wrote
       /\ last.reads = NoReads

\* a probe accepted a counter that the ledger holds as used
C6_Witness ==
  /\ ProbeReturned
  /\ last.result.valid
  /\ last.result.counter \in ledger[last.result.uid]

(* C7: the MAC step passes iff the provided MAC is exactly 8 bytes and     *)
(* equals the first 8 bytes of CMAC(sessionKey, empty); a provided MAC     *)
(* with any byte changed fails.                                            *)
C7_MacStepPassesIffEqual ==
  trial.kind = "mac" =>
    (trial.passed <=>
       /\ Len(hexToBuffer(trial.data.cmac)) = 8
       /\ hexToBuffer(trial.data.cmac) = ExpectedMac(trial.data))

\* a MAC that differs from the genuine one in its last byte only was tried
\* and failed
C7_Witness ==
  /\ trial.kind = "mac"
  /\ ~trial.passed
  /\ Len(hexToBuffer(trial.data.cmac)) = 8
  /\ SubSeq(hexToBuffer(trial.data.cmac), 1, 7) =
       SubSeq(ExpectedMac(trial.data), 1, 7)

(* C8: the stages run in the order decode, derive, MAC check, replay       *)
(* check, each only after the earlier ones succeeded: a call is at a       *)
(* ledger operation only in strict mode with a decoded, MAC-valid message, *)
(* the ledger operations come in the order of checkReplayAttack, and       *)
(* valid=true is returned only after the MAC check passed and, in strict   *)
(* mode, the replay check passed and the counter was stored.               *)
C8_StagesInOrder ==
  /\ \A p \in Procs :
       pc[p] \in KvPcs => (MacValidOf[msg[p]] /\ ~skip[p])
  /\ \A p \in Procs :
       /\ pc[p] = "idle" => kvOps[p] = {}
       /\ pc[p] = "isCounterUsed" => kvOps[p] = {}
       /\ pc[p] = "getMaxCounter" => kvOps[p] = {"zscore"}
       /\ pc[p] = "zadd" => kvOps[p] = {"zscore", "zrange"}
       /\ pc[p] = "zcard" => kvOps[p] = {"zscore", "zrange", "zadd"}
       /\ pc[p] = "zpopmin" =>
            kvOps[p] = {"zscore", "zrange", "zadd", "zcard"}
  /\ last.result.done =>
       /\ last.kvOps # {} => (MacValidOf[last.msg] /\ ~last.skip)
       /\ last.result.reason = ReasonCmac => Decodes(MessageTable[last.msg])
       /\ last.result.reason = ReasonReplay => MacValidOf[last.msg]
       /\ last.result.valid => MacValidOf[last.msg]
       /\ (last.result.valid /\ ~last.skip) =>
            /\ ReplayPassed
            /\ {"zscore", "zrange", "zadd", "zcard"} \subseteq last.kvOps

\* a strict call went through every stage and was accepted
C8_Witness ==
  /\ StrictReturned
  /\ last.result.valid
  /\ last.kvOps = {"zscore", "zrange", "zadd", "zcard", "zpopmin"}

(* C9: a verification of a message that is malformed or whose MAC does not *)
(* match never changes the ledger, in strict and in probe mode.            *)
C9_RejectedMessageLeavesLedger ==
  /\ \A p \in Procs :
       (pc[p] # "idle" /\ ~MacValidOf[msg[p]]) =>
         (~wrote[p] /\ pc[p] \notin {"zadd", "zpopmin"})
  /\ (last.result.done /\ ~MacValidOf[last.msg]) =>
       /\ ~last.result.valid
       /\ ~last.wrote
       /\ last.kvOps = {}

\* a MAC mismatch was rejected in strict mode while the ledger held counters
\* of that UID
C9_Witness ==
  /\ StrictReturned
  /\ last.result.reason = ReasonCmac
  /\ ledger[last.result.uid] # {}

(* C10: every verification that returns valid=false has left the ledger as *)
(* it was, also when a ledger operation failed after the counter was added.*)
C10_RejectionLeavesLedger ==
  (last.result.done /\ ~last.result.valid) => ~last.wrote

C12_MaxNeverDecreases ==
  [][\A u \in Uids :
       /\ getMaxCounter(u)' >= getMaxCounter(u)
       /\ ledger[u] # {} => ledger'[u] # {}]_vars

\* the counters recorded for the UID of the strict call that returned, its
\* own recording left out, from position `from` on
RecordedBefore(from) ==
  LET log == recorded[DecodedUidOf[last.msg]]
      own == IF "zadd" \in last.kvOps THEN 1 ELSE 0
  IN {log[i] : i \in from..(Len(log) - own)}

Outcomes ==
  {Accepted(u, c) : u \in Uids, c \in Counters}
  \cup {Rejected(r, u, c) : r \in {ReasonCmac, ReasonReplay},
                            u \in Uids, c \in Counters}
  \cup {Rejected(r, NoUid, NoCounter) : r \in {ReasonFormat, ReasonError}}

(* C14: every call of verifyNTAG424 that ends hands its caller a           *)
(* VerificationResult (valid true, or valid false with one of the reasons),*)
(* also when decryption threw or a ledger operation failed; nothing        *)
(* escapes as an exception.                                                *)
C14_AlwaysStructuredOutcome ==
  last # NoLast => (last.result.done /\ last.result \in Outcomes)

\* a call whose decryption threw (piccData not a whole number of blocks)
\* returned the error result
C14_Witness ==
  /\ last.result.done
  /\ ~Decodes(MessageTable[last.msg])
  /\ last.result = Rejected(ReasonError, NoUid, NoCounter)

(* C15: the result of verifyNTAG424 carries no uid and no counter when     *)
(* decoding failed, and carries the decoded uid and counter when the call  *)
(* was rejected for a MAC mismatch or a replay and when it was accepted.   *)
C15_UidCounterPresence ==
  last.result.done =>
    /\ ~Decodes(MessageTable[last.msg]) =>
         (last.result.uid = NoUid /\ last.result.counter = NoCounter)
    /\ (last.result.valid \/ last.result.reason \in {ReasonCmac, ReasonReplay})
         => /\ Decodes(MessageTable[last.msg])
            /\ last.result.uid = DecodedUidOf[last.msg]
            /\ last.result.counter = DecodedCounterOf[last.msg]

\* a replay rejection that carries the decoded uid and counter
C15_Witness ==
  /\ last.result.done
  /\ last.result.reason = ReasonReplay
  /\ last.result.uid = toHex(UidA)
  /\ last.result.counter \in 1..MaxCounter

\* the piccData of the message is not valid hex, or is shorter than 16
\* bytes, or is not a whole number of blocks
MalformedInput(data) ==
  \/ ~ValidHex(data.piccData)
  \/ Len(data.piccData) < 32
  \/ Len(data.piccData) % 32 # 0

(* C16: a rejection names the first stage that failed: a malformed         *)
(* piccData gives the malformed-input reason, a MAC mismatch the MAC       *)
(* reason, a used or non-increasing counter the replay reason, a ledger    *)
(* failure the error reason, and no reason stands for two of these causes. *)
C16_ReasonNamesFailedStage ==
  (last.result.done /\ ~last.result.valid) =>
    LET data == MessageTable[last.msg]
    IN /\ MalformedInput(data) <=> last.result.reason = ReasonFormat
       /\ (~MalformedInput(data) /\ ~MacValidOf[last.msg])
            <=> last.result.reason = ReasonCmac
       /\ last.result.reason = ReasonReplay =>
            (MacValidOf[last.msg] /\ ~last.skip /\ ~ReplayPassed)
       /\ last.result.reason = ReasonError =>
            (MacValidOf[last.msg] /\ ~last.skip)

(* C17: the PICC decoder returns a failure, with no UID and no counter,    *)
(* for every piccData that is not valid hex, decodes to fewer than 16      *)
(* bytes, or decodes to a length that is not a multiple of 16.             *)
C17_DecoderRejectsMalformed ==
  (trial.kind = "parse" /\ MalformedInput(trial.data)) =>
    trial.parsed = NoParse

(* C18: a UID and counter the PICC decoder returns are read from the       *)
(* plaintext of a successful decryption of block-aligned ciphertext; with  *)
(* no key, with a length that is not block aligned or with a decryption    *)
(* that throws, the decoder returns no UID.                                *)
C18_UidOnlyFromPlaintext ==
  (trial.kind = "parse" /\ trial.parsed.ok) =>
    LET bytes == hexToBuffer(trial.data.piccData)
        dec   == decryptSUNMessage(bytes, hexToBuffer(trial.aesKey), ZeroIV)
    IN /\ trial.aesKey # <<>>
       /\ Len(bytes) % 16 = 0
       /\ ~dec.threw
       /\ trial.parsed.uid = toHex(SubSeq(dec.data, 2, 8))
       /\ trial.parsed.counter = readUIntLE3(dec.data, 8)

(* C19: verifyNTAG424 performs a decryption, a session key derivation or a *)
(* CMAC computation only on a message whose piccData decodes to a positive *)
(* multiple of 16 bytes and whose cmac decodes to exactly 8 bytes; any     *)
(* other message is rejected before a cryptographic step.                  *)
C19_ValidatedBeforeCrypto ==
  last.result.done =>
    LET data  == MessageTable[last.msg]
        valid == /\ ~MalformedInput(data)
                 /\ ValidHex(data.cmac)
                 /\ Len(data.cmac) = 16
    IN ~valid => (CryptoStepsOf[last.msg] = <<>> /\ ~last.result.valid)

----------------------------------------------------------------------------
\* what the step of request p read from the ledger up to now: its locals,
\* or those shown by `last` when the step returned
ReadsAfter(p) == IF pc'[p] = "idle" THEN last'.reads ELSE reads'[p]

(* C21: a verification for one UID never reads or changes the replay       *)
(* record of another UID: every step of a call leaves the sorted sets of   *)
(* all other UIDs as they were, a starting call changes none, and what the *)
(* call learns (used, maxCounter), which decides its outcome, is read from *)
(* the sorted set of its own UID alone.                                    *)
C21_OtherUidUntouched ==
  [][\A p \in Procs :
       pc'[p] # pc[p] =>
         IF pc[p] = "idle"
         THEN ledger' = ledger
         ELSE LET u == ParsedOf[msg[p]].uid
                  c == ParsedOf[msg[p]].counter
              IN /\ \A v \in Uids \ {u} : ledger'[v] = ledger[v]
                 /\ (pc[p] = "isCounterUsed" /\ ReadsAfter(p).used # "unread")
                      => (ReadsAfter(p).used = "yes" <=> c \in ledger[u])
                 /\ (pc[p] = "getMaxCounter" /\ ReadsAfter(p).max # NoCounter)
                      => ReadsAfter(p).max =
                           (IF ledger[u] = {} THEN 0 ELSE SetMax(ledger[u]))
    ]_vars

\* a strict call for one UID was accepted on its first counter while the
\* other UID had a counter on record and a call of its own in progress
C21_Witness ==
  /\ StrictReturned
  /\ last.result.valid
  /\ last.reads.max = 0
  /\ \E v \in Uids \ {last.result.uid} :
        /\ ledger[v] # {}
        /\ \E q \in Procs : pc[q] # "idle" /\ ParsedOf[msg[q]].uid = v

\* saveCounter is in progress for uid: a call for it is at or past zadd
Recording(uid) ==
  \E p \in Procs :
    pc[p] \in {"zadd", "zcard", "zpopmin"} /\ ParsedOf[msg[p]].uid = uid

\* the counters zadd stored for uid so far
RecordedSet(uid) == {recorded[uid][i] : i \in 1..Len(recorded[uid])}

(* C22: whenever no recording is in progress for a UID, its retained set   *)
(* holds at most Capacity counters and is exactly the highest-valued       *)
(* counters recorded so far (all of them while no more than Capacity were  *)
(* recorded), also when recordings for the UID interleave.                 *)
C22_RetainedIsHighestRecorded ==
  \A u \in Uids :
    ~Recording(u) =>
      /\ Cardinality(ledger[u]) <= Capacity
      /\ ledger[u] = zpopmin(RecordedSet(u),
                             Cardinality(RecordedSet(u)) - Capacity)

\* the sorted set after one whole saveCounter(uid, counter) on the set S
SavedOnce(S, counter) ==
  LET T == S \cup {counter}
  IN zpopmin(T, Cardinality(T) - Capacity)

RECURSIVE SavedInTurn(_)
\* the sorted set after the recordings of seq, each made once and whole,
\* a repeated (uid, counter) made only the first time
SavedInTurn(seq) ==
  IF seq = <<>> THEN {}
  ELSE LET front == SubSeq(seq, 1, Len(seq) - 1)
           c     == seq[Len(seq)]
       IN IF Occurrences(front, c) > 0
          THEN SavedInTurn(front)
          ELSE SavedOnce(SavedInTurn(front), c)

(* C23: recording the same (uid, counter) twice leaves the replay record   *)
(* as recording it once does: when every recording made for a UID belongs  *)
(* to a call that returned accepted and one counter was recorded twice,    *)
(* the retained set (members, size, maximum) is the one the recordings     *)
(* give with the repeat left out.                                          *)
C23_RecordingTwiceAsOnce ==
  \A u \in Uids :
    ( /\ ~Recording(u)
      /\ Len(acceptLog[u]) = Len(recorded[u])
      /\ \E c \in Counters : Occurrences(recorded[u], c) >= 2 )
    => ledger[u] = SavedInTurn(recorded[u])

(* C24: from a data buffer that reaches the layout step (16 bytes or more, *)
(* decrypted or used as it is) the decoder returns as UID the bytes at     *)
(* offsets 1 to 7 in order, as uppercase hex, byte 0 skipped, and as       *)
(* counter b8 + 256*b9 + 65536*b10, a value in 0..2^24-1; a buffer shorter *)
(* than 11 bytes yields a decode failure.                                  *)
C24_UidAndCounterLayout ==
  trial.kind = "parse" =>
    LET bytes == hexToBuffer(trial.data.piccData)
        dec   == decryptSUNMessage(bytes, hexToBuffer(trial.aesKey), ZeroIV)
        D     == IF trial.aesKey # <<>> /\ Len(bytes) % 16 = 0 /\ ~dec.threw
                 THEN dec.data ELSE bytes
    IN /\ Len(bytes) >= 16 =>
            /\ trial.parsed.ok
            /\ Len(trial.parsed.uid) = 14
            /\ \A k \in 1..7 :
                 /\ trial.parsed.uid[2 * k - 1] = D[k + 1] \div 16
                 /\ trial.parsed.uid[2 * k] = D[k + 1] % 16
            /\ trial.parsed.counter = D[9] + 256 * D[10] + 65536 * D[11]
            /\ trial.parsed.counter \in 0..(16777216 - 1)
       /\ Len(bytes) < 11 => trial.parsed = NoParse

\* the decoder, given the key, read the first tag's UID and its highest
\* counter from a decrypted tap whose byte 0 is the PICCDataTag
C24_Witness ==
  /\ trial.kind = "parse"
  /\ trial.aesKey = AesKeyHex
  /\ trial.parsed.ok
  /\ trial.parsed.uid = toHex(UidA)
  /\ trial.parsed.counter = MaxCounter
  /\ PlainOf(trial.data)[1] = 199

\* the decoder, given no key, read a counter of more than two bytes from the
\* buffer as it is
C24_WideCounter ==
  trial.kind = "parse" /\ trial.parsed.ok /\ trial.parsed.counter > 65535

\* byte k (from 1) of the buffer a hex string stands for
HexByte(hex, k) == 16 * hex[2 * k - 1] + hex[2 * k]

(* C25: the session vector the key deriver builds from a 7-byte UID and a  *)
(* counter in 0..2^24-1 is exactly 16 bytes: 3C C3, 00 01, 00 80, the UID  *)
(* bytes at offsets 6 to 12, the counter as 3 little-endian bytes at       *)
(* offsets 13 to 15; offsets 6 to 15 equal offsets 1 to 10 of the          *)
(* decrypted plaintext the UID and counter came from.                      *)
C25_SessionVectorLayout ==
  (trial.kind = "derive" /\ trial.derived.ok) =>
    LET sv    == trial.derived.sv2
        uid   == trial.parsed.uid
        c     == trial.parsed.counter
        plain == decryptSUNMessage(hexToBuffer(trial.data.piccData),
                                   hexToBuffer(trial.aesKey), ZeroIV).data
    IN /\ Len(uid) = 14 /\ c \in 0..(16777216 - 1)
       /\ Len(sv) = 16
       /\ SubSeq(sv, 1, 6) = <<60, 195, 0, 1, 0, 128>>
       /\ \A k \in 1..7 : sv[6 + k] = HexByte(uid, k)
       /\ sv[14] = c % 256
       /\ sv[15] = (c \div 256) % 256
       /\ sv[16] = c \div 65536
       /\ \A j \in 1..10 : sv[6 + j] = plain[1 + j]

\* a session vector was built for the tap of a tag whose UID bytes all
\* differ and whose counter has three different bytes
C25_Witness ==
  /\ trial.kind = "derive"
  /\ trial.derived.ok
  /\ trial.aesKey = AesKeyHex
  /\ trial.parsed.uid = toHex(<<1, 35, 69, 103, 137, 171, 205>>)
  /\ trial.parsed.counter = 197121
  /\ SubSeq(trial.derived.sv2, 14, 16) = <<1, 2, 3>>

SessionKeyOf ==
  [m \in Messages |->
     IF ParsedOf[m].ok
     THEN toHex(generateSDMSessionKey(AesKeyBytes, ParsedOf[m].uid,
                                      ParsedOf[m].counter))
     ELSE <<>>]

(* C27: no verification writes the base key or a derived session key to a  *)
(* log: no line the call that returned has written carries the base key or *)
(* the session key of its message.                                         *)
C27_NoKeyInLogs ==
  last.result.done =>
    \A i \in 1..Len(ConsoleLogOf[last.msg]) :
      /\ ConsoleLogOf[last.msg][i].value # AesKeyHex
      /\ (ParsedOf[last.msg].ok =>
            ConsoleLogOf[last.msg][i].value # SessionKeyOf[last.msg])

(* C28: the comparison of the computed truncated CMAC with the provided    *)
(* MAC is constant-time: whenever the MAC step compares a provided MAC of  *)
(* 8 bytes, the comparison examines all 8 bytes, wherever the first        *)
(* mismatching byte is.                                                    *)
C28_ComparisonConstantTime ==
  (trial.kind = "mac" /\ Len(hexToBuffer(trial.data.cmac)) = 8)
    => trial.examined = 8

(* C29: each tag UID has at most one owner and register-tag never replaces *)
(* an existing owner: no step changes the owner a uid is registered to,    *)
(* and a success response goes only to the user the step made the owner of *)
(* a uid that had none; so of two users registering the same uid           *)
(* concurrently at most one succeeds.                                      *)
C29_OwnerNeverReplaced ==
  [][/\ \A k \in TagKeys : owner[k] # NoOwner => owner'[k] = owner[k]
     /\ (reply'.route = "register" /\ reply'.status = 200) =>
          /\ owner[reply'.uid] = NoOwner
          /\ owner'[reply'.uid] = reply'.user
    ]_vars

(* C30: verify-tag answers 'Access granted' only if, in that request,      *)
(* verifyNTAG424 in strict mode returned valid=true and the stored owner   *)
(* of the tag, the one whose UID the verification returned and the answer  *)
(* reports, is the signed-in user; a request without a session, a tag      *)
(* without owner or a tag of another user is never granted access.         *)
C30_GrantedOnlyToOwner ==
  reply.message = "Access granted" =>
    /\ reply.user # NoUser
    /\ reply.strict /\ reply.valid
    /\ owner[reply.uid] = reply.user

(* C31: in verify-tag the uid the owner was looked up under (and that a    *)
(* 'Tag not registered' answer returns for registration) is the UID the    *)
(* request's verifyNTAG424 call recovered from the same piccData: whenever *)
(* the call returns with a UID, the route had read the owner under it.     *)
C31_LookupUidIsVerifiedUid ==
  [][\A p \in Procs :
       ( /\ route[p].name = "verify"
         /\ route[p].at = "verifyNTAG424"
         /\ route'[p] = NoRoute
         /\ last'.result.uid # NoUid ) =>
           route[p].uid = last'.result.uid
    ]_vars

(* C32: a verify-tag request that does not end in 'Access granted' has     *)
(* recorded no counter: when the route answers 'Tag not registered',       *)
(* 'Access denied' or 'Tag verification failed', the verifyNTAG424 call it *)
(* made has not changed the replay ledger.                                 *)
C32_DeniedRecordsNothing ==
  ( /\ reply.route = "verify"
    /\ reply.message \in {"Tag not registered", "Access denied",
                          "Tag verification failed"} ) =>
      ~last.wrote

(* C33: for a tag without registered owner verify-tag calls verifyNTAG424  *)
(* with skipReplayCheck=true only: the call makes no ledger operation and  *)
(* records no counter, the answer is 'Tag not registered' exactly when the *)
(* piccData decoded and the MAC check succeeded, and 'Tag verification     *)
(* failed' otherwise.                                                      *)
C33_UnownedProbeOnly ==
  /\ \A p \in Procs :
       ( /\ route[p].name = "verify"
         /\ route[p].at = "verifyNTAG424"
         /\ route[p].owner = NoOwner ) => pc[p] = "idle"
  /\ ( /\ reply.route = "verify"
       /\ reply.owner = NoOwner
       /\ reply.message \in {"Tag not registered",
                             "Tag verification failed"} ) =>
         /\ last.skip
         /\ ~reply.strict
         /\ last.kvOps = {}
         /\ ~last.wrote
         /\ reply.message = "Tag not registered" <=> MacValidOf[last.msg]
         /\ reply.message = "Tag verification failed" <=>
              ~MacValidOf[last.msg]

\* an unowned tap with a changed MAC is answered 'Tag verification failed'
\* while the ledger holds a counter of that tag, recorded for another tap
C33_Witness ==
  /\ reply.route = "verify"
  /\ reply.owner = NoOwner
  /\ reply.message = "Tag verification failed"
  /\ last.skip
  /\ ledger[last.result.uid] # {}

(* C34: when a strict verification returns valid=true for (uid, counter),  *)
(* the ledger holds that acceptance, whatever other verifications of the   *)
(* UID were interleaved with it: isCounterUsed(uid, counter) is true and   *)
(* getMaxCounter(uid) is at least counter.                                 *)
C34_AcceptanceHeld ==
  (StrictReturned /\ last.result.valid) =>
    /\ isCounterUsed(last.result.uid, last.result.counter)
    /\ getMaxCounter(last.result.uid) >= last.result.counter

\* the call that returned was given a MAC-valid message whose decoded
\* counter is 0
ZeroReturned ==
  /\ last.result.done
  /\ MacValidOf[last.msg]
  /\ DecodedCounterOf[last.msg] = 0

(* C35 as stated: a strict verification of a message whose decoded counter *)
(* is 0 is rejected as a replay in every ledger state, a UID without       *)
(* history included, and the same message is accepted in probe mode if its *)
(* MAC is valid.                                                           *)
C35_ZeroRejectedAsReplay ==
  ZeroReturned =>
    IF last.skip THEN last.result.valid
    ELSE ~last.result.valid /\ last.result.reason = ReasonReplay

(* C35 amended: a strict verification of a MAC-valid message whose decoded *)
(* counter is 0 is rejected in every ledger state and records nothing; the *)
(* reason is the replay reason unless a ledger read failed, and then it is *)
(* 'Verification error'; in probe mode the message is accepted.            *)
C35_ZeroRejected ==
  ZeroReturned =>
    IF last.skip THEN last.result.valid
    ELSE /\ ~last.result.valid
         /\ ~last.wrote
         /\ "zadd" \notin last.kvOps
         /\ last.result.reason \in {ReasonReplay, ReasonError}
         /\ last.result.reason = ReasonReplay <=>
              (last.reads.used = "yes" \/ last.reads.max # NoCounter)

\* a strict call with the counter 0 message returned the replay reason
\* having read an empty set: isCounterUsed false, getMaxCounter 0
C35_Witness ==
  /\ ZeroReturned
  /\ ~last.skip
  /\ last.result.reason = ReasonReplay
  /\ last.reads.used = "no"
  /\ last.reads.max = 0
  /\ ledger[last.result.uid] = {}
  /\ acceptLog[last.result.uid] = <<>>

(* C36: every call of verifyNTAG424 eventually returns a verdict, accepted *)
(* or rejected, when its steps are scheduled fairly, whatever the ledger   *)
(* calls do: a request whose call is in progress is in the end idle again. *)
C36_EveryCallReturns ==
  \A p \in Procs : (pc[p] # "idle") ~> (pc[p] = "idle")

(* C37: for one page load with a tap the page sends at most one            *)
(* verification request for that tap unless the user registers the tag in  *)
(* between, and once 'Access granted' is shown for the tap the page goes   *)
(* on showing it: no step resends the tap and no step replaces the result  *)
(* shown while the URL holds the same tap.                                 *)
C37_TapSentOnce ==
  [][/\ ~page'.resent
     /\ (page.result = "Access granted" /\ page'.tap = page.tap) =>
          page'.result = "Access granted"
    ]_vars

====
